---- MODULE Spec2Model ----
(***************************************************************************)
(* Alpha-beta searcher and static evaluator of the Scacchi chess engine    *)
(* (src/src/main.rs).  The chess rules (crate `chess`) are an external     *)
(* collaborator: they are represented by an abstract deterministic game    *)
(* that satisfies the Rules Engine contract (finite ordered move lists, a  *)
(* move flips the side to move, a position is Ongoing iff it has a legal   *)
(* move).  The search itself is modelled call by call with an explicit     *)
(* call stack.                                                             *)
(***************************************************************************)
EXTENDS Integers, Sequences, FiniteSets, TLC

VARIABLES entry, stack, root, ret, total, movegens, evals, result, done

vars == <<entry, stack, root, ret, total, movegens, evals, result, done>>

----------------------------------------------------------------------------
(* Bounds of the explored inputs.                                          *)

\* root positions are the game positions numbered 1..NumRoots, either side
NumRoots == 24

\* search depths 0..MaxDepth
MaxDepth == 3

----------------------------------------------------------------------------
(* Machine integers.  alpha, beta and best_value are i64 and are only ever *)
(* compared, never added to; i64::MIN and i64::MAX are represented by the  *)
(* extreme values of TLC's 32-bit integers, below and above every          *)
(* evaluation, which keeps every comparison as it is in i64.               *)

I64_MIN == -2147483647

I64_MAX == 2147483647

Max(a, b) == IF a >= b THEN a ELSE b

Min(a, b) == IF a <= b THEN a ELSE b

----------------------------------------------------------------------------
(* Rules Engine (crate `chess`), abstracted.  A position is a side to move *)
(* and the number `id` of a node of the game; the moves of a position are  *)
(* numbered 1..n in enumeration order and move i of node k leads to node   *)
(* 4k+i with the other side to move.                                       *)

Color == {"White", "Black"}

Other(c) == IF c = "White" THEN "Black" ELSE "White"

Pc(kind, col) == [pc |-> kind, col |-> col]

\* piece placements occurring in the game: square index (a1 = 0 .. h8 = 63)
\* to piece
Boards ==
  << (4 :> Pc("King", "White") @@ 60 :> Pc("King", "Black")),
     (4 :> Pc("King", "White") @@ 60 :> Pc("King", "Black")
        @@ 12 :> Pc("Pawn", "White") @@ 52 :> Pc("Pawn", "Black")),
     (6 :> Pc("King", "White") @@ 62 :> Pc("King", "Black")
        @@ 0 :> Pc("Rook", "White") @@ 27 :> Pc("Queen", "Black")
        @@ 18 :> Pc("Knight", "White")),
     (2 :> Pc("King", "White") @@ 57 :> Pc("King", "Black")
        @@ 35 :> Pc("Pawn", "White") @@ 36 :> Pc("Pawn", "Black")
        @@ 21 :> Pc("Bishop", "Black") @@ 42 :> Pc("Bishop", "White")),
     (7 :> Pc("King", "White") @@ 56 :> Pc("King", "Black")
        @@ 63 :> Pc("Rook", "Black") @@ 8 :> Pc("Pawn", "White")
        @@ 9 :> Pc("Pawn", "White") @@ 49 :> Pc("Knight", "Black")),
     (1 :> Pc("King", "White") @@ 58 :> Pc("King", "Black")
        @@ 59 :> Pc("Rook", "Black") @@ 3 :> Pc("Rook", "White")
        @@ 51 :> Pc("Pawn", "Black") @@ 11 :> Pc("Pawn", "White")
        @@ 19 :> Pc("Pawn", "White")) >>

\* game status of the nodes, by node number
StatusCycle ==
  << "Checkmate", "Ongoing", "Ongoing", "Ongoing", "Ongoing", "Stalemate",
     "Ongoing", "Ongoing", "Ongoing", "Checkmate", "Ongoing" >>

\* number of legal moves of the Ongoing nodes, by node number
MovesCycle == << 3, 3, 3, 1, 2 >>

Placement(board) == Boards[(board.id % Len(Boards)) + 1]

status(board) == StatusCycle[(board.id % Len(StatusCycle)) + 1]

side_to_move(board) == board.stm

\* MoveGen::new_legal: the legal moves in enumeration order; none unless
\* the position is Ongoing, at least one if it is
new_legal(board) ==
  IF status(board) = "Ongoing"
  THEN [i \in 1..MovesCycle[(board.id % Len(MovesCycle)) + 1] |-> i]
  ELSE << >>

\* Board::make_move: a new position, the other side to move
make_move(board, mv) == [stm |-> Other(board.stm), id |-> 4 * board.id + mv]

\* Board::pieces: the squares holding a piece of the given kind
pieces(board, pc_type) ==
  {sq \in DOMAIN Placement(board) : Placement(board)[sq].pc = pc_type}

\* Board::color_on
color_on(board, sq) ==
  IF sq \in DOMAIN Placement(board) THEN Placement(board)[sq].col ELSE "None"

----------------------------------------------------------------------------
(* piece_values: material values and piece-square tables, indexed from 0.  *)

PIECES ==
  [pc_idx \in 0..5 |->
     <<"Pawn", "Knight", "Bishop", "Rook", "Queen", "King">>[pc_idx + 1]]

PIECE_VALS ==
  [pc_idx \in 0..5 |-> <<100, 320, 330, 500, 900, 0>>[pc_idx + 1]]

\* positional bonus, White-oriented: grows with the rank, differs by file
PIECE_SQUARES ==
  [pc_idx \in 0..5 |->
     [sq_idx \in 0..63 |->
        (pc_idx + 1) * (sq_idx \div 8) + 2 * (sq_idx % 8) - 10]]

----------------------------------------------------------------------------
(* Evaluator.                                                              *)

\* mutant: the Black piece is looked up on its own square, not the mirrored
calc_piece_value_unmirrored(pc_idx, sq_idx, colour) ==
  CASE colour = "White" ->
         -(PIECE_VALS[pc_idx] + PIECE_SQUARES[pc_idx][sq_idx])
    [] colour = "Black" ->
         -(PIECE_VALS[pc_idx] + PIECE_SQUARES[pc_idx][sq_idx])
    [] OTHER -> 0

calc_piece_value(pc_idx, sq_idx, colour) ==
  CASE colour = "White" ->
         -(PIECE_VALS[pc_idx] + PIECE_SQUARES[pc_idx][sq_idx])
    [] colour = "Black" ->
         -(PIECE_VALS[pc_idx] + PIECE_SQUARES[pc_idx][63 - sq_idx])
    [] OTHER -> 0

\* the inner loop: the squares of one bitboard, lowest square first
RECURSIVE SumSquares(_, _, _)
SumSquares(board, pc_idx, sqs) ==
  IF sqs = {} THEN 0
  ELSE LET square == CHOOSE s \in sqs : \A t \in sqs : s <= t
       IN  calc_piece_value(pc_idx, square, color_on(board, square))
             + SumSquares(board, pc_idx, sqs \ {square})

\* the outer loop: for pc_idx in 0..6
RECURSIVE SumKinds(_, _)
SumKinds(board, pc_idx) ==
  IF pc_idx = 6 THEN 0
  ELSE SumSquares(board, pc_idx, pieces(board, PIECES[pc_idx]))
         + SumKinds(board, pc_idx + 1)

calc_pieces_value(board) == SumKinds(board, 0)

\* mutant: the checkmate scores of the two sides are exchanged
calc_board_value_swapped(board) ==
  LET w_move == side_to_move(board) = "White"
  IN  CASE status(board) = "Ongoing" -> calc_pieces_value(board)
        [] status(board) = "Stalemate" -> 0
        [] status(board) = "Checkmate" -> IF w_move THEN -20000 ELSE 20000

calc_board_value(board) ==
  LET w_move == side_to_move(board) = "White"
  IN  CASE status(board) = "Ongoing" -> calc_pieces_value(board)
        [] status(board) = "Stalemate" -> 0
        [] status(board) = "Checkmate" -> IF w_move THEN 20000 ELSE -20000

----------------------------------------------------------------------------
(* Searcher: the pieces of alpha_beta's body.                              *)

\* mutant: the status of the position is not looked at
terminal_depth_only(board, depth) == depth = 0

\* line 70: the node is evaluated, not expanded
terminal(board, depth) == (depth = 0) \/ (status(board) /= "Ongoing")

\* mutant: the counter is set, not incremented
count_leaf_set(n) == 1

\* line 71: one more evaluated leaf
count_leaf(n) == n + 1

\* lines 80 and 96: best_value before the first move
initial_best(is_max) == IF is_max THEN I64_MIN ELSE I64_MAX

\* lines 87 and 103
best_of(is_max, value, best_value) ==
  IF is_max THEN Max(value, best_value) ELSE Min(value, best_value)

\* mutant: the minimizing branch takes the minimum with alpha, not beta
narrow_typo(is_max, alpha, beta, best_value) ==
  IF is_max
  THEN [alpha |-> Max(alpha, best_value), beta |-> beta]
  ELSE [alpha |-> alpha, beta |-> Min(alpha, best_value)]

\* lines 89 and 105: the window after a child's value came back
narrow(is_max, alpha, beta, best_value) ==
  IF is_max
  THEN [alpha |-> Max(alpha, best_value), beta |-> beta]
  ELSE [alpha |-> alpha, beta |-> Min(beta, best_value)]

\* mutant: the comparison of the cutoff is turned around
cutoff_inverted(alpha, beta) == alpha <= beta

\* lines 90 and 106
cutoff(alpha, beta) == beta <= alpha

\* lines 86 and 102: the depth and the flag handed to the recursive call
child_depth(depth) == depth - 1

\* mutant: the flag is handed on as it is
child_is_max_same(is_max) == is_max

child_is_max(is_max) == ~is_max

\* a fresh activation of alpha_beta, nothing executed yet
Frame(board, depth, is_max, alpha, beta) ==
  [board |-> board, depth |-> depth, is_max |-> is_max,
   alpha |-> alpha, beta |-> beta,
   best_value |-> 0, moves |-> << >>, pc |-> "start"]

\* mutant: a move of equal value replaces the one found before
is_better_or_equal(black_move, x, y) == IF black_move THEN x >= y ELSE x <= y

\* mutant: the two comparisons are exchanged
is_better_exchanged(black_move, x, y) == IF black_move THEN x < y ELSE x > y

\* lines 155-163: the comparison of the root driver
is_better(black_move, x, y) == IF black_move THEN x > y ELSE x < y

\* mutant: the two sentinels are exchanged
root_initial_best_exchanged(black_move) ==
  IF black_move THEN I64_MAX ELSE I64_MIN

\* lines 157 and 160
root_initial_best(black_move) == IF black_move THEN I64_MIN ELSE I64_MAX

----------------------------------------------------------------------------
(* Inputs.                                                                 *)

Roots == [stm : Color, id : 1..NumRoots]

Depths == 0..MaxDepth

\* the scores a node can have: the three fixed ones and the placements'
Scores ==
  {20000, -20000, 0}
    \cup {calc_pieces_value([stm |-> "White", id |-> i]) : i \in 1..Len(Boards)}

\* the leaves the caller of a direct call of alpha_beta has counted so far
StartCount == 7

\* window bounds of a direct call of alpha_beta
WindowVals == {I64_MIN, I64_MAX} \cup Scores

\* ret holds the value a call has just returned, << v >>, or nothing, << >>
Top == stack[Len(stack)]

Pop == SubSeq(stack, 1, Len(stack) - 1)

ReplaceTop(f) == [stack EXCEPT ![Len(stack)] = f]

Init ==
  /\ ret = << >>
  /\ movegens = 0
  /\ evals = 0
  /\ result = << >>
  /\ done = FALSE
  /\ \E board \in Roots, depth \in Depths :
       \/ /\ entry = [op |-> "find_best_move", board |-> board, depth |-> depth]
          /\ stack = << >>
          /\ root = [pc |-> "start"]
          /\ total = 0
       \/ \E is_max \in BOOLEAN, alpha \in WindowVals, beta \in WindowVals,
             t0 \in {StartCount} :
            /\ entry = [op |-> "alpha_beta", board |-> board, depth |-> depth,
                        is_max |-> is_max, alpha |-> alpha, beta |-> beta,
                        total |-> t0]
            /\ stack = << Frame(board, depth, is_max, alpha, beta) >>
            /\ root = [pc |-> "none"]
            /\ total = t0

----------------------------------------------------------------------------
(* alpha_beta, one activation on top of the stack.                         *)

\* lines 70-74: depth 0 or a finished game: count the leaf, return its score
AB_Leaf ==
  /\ stack /= << >>
  /\ Top.pc = "start"
  /\ terminal(Top.board, Top.depth)
  /\ total' = count_leaf(total)
  /\ evals' = evals + 1
  /\ ret' = << calc_board_value(Top.board) >>
  /\ stack' = Pop
  /\ UNCHANGED <<entry, root, movegens, result, done>>

\* lines 76-82 (96-98): the moves are generated, best_value gets its
\* sentinel; a position without moves returns the sentinel at once
AB_Expand ==
  /\ stack /= << >>
  /\ Top.pc = "start"
  /\ ~terminal(Top.board, Top.depth)
  /\ movegens' = movegens + 1
  /\ LET moves == new_legal(Top.board)
         best  == initial_best(Top.is_max)
     IN  IF moves = << >>
         THEN /\ ret' = << best >>
              /\ stack' = Pop
         ELSE /\ ret' = ret
              /\ stack' = ReplaceTop([Top EXCEPT !.moves = moves,
                                                !.best_value = best,
                                                !.pc = "loop"])
  /\ UNCHANGED <<entry, root, total, evals, result, done>>

\* lines 83-86 (99-102): the next move is made and searched one ply deeper
\* with the current window and the flag flipped
AB_Call ==
  /\ stack /= << >>
  /\ Top.pc = "loop"
  /\ Top.moves /= << >>
  /\ LET mv == Head(Top.moves)
         result_board == make_move(Top.board, mv)
     IN  stack' = Append(ReplaceTop([Top EXCEPT !.moves = Tail(Top.moves),
                                               !.pc = "call"]),
                         Frame(result_board, child_depth(Top.depth),
                               child_is_max(Top.is_max), Top.alpha, Top.beta))
  /\ ret' = << >>
  /\ UNCHANGED <<entry, root, total, movegens, evals, result, done>>

\* lines 87-94 (103-110): the child's value updates best_value and the
\* window; on a cutoff or after the last move best_value is returned
AB_Update ==
  /\ stack /= << >>
  /\ Top.pc = "call"
  /\ LET value == ret[1]
         best  == best_of(Top.is_max, value, Top.best_value)
         win   == narrow(Top.is_max, Top.alpha, Top.beta, best)
     IN  IF cutoff(win.alpha, win.beta) \/ Top.moves = << >>
         THEN /\ ret' = << best >>
              /\ stack' = Pop
         ELSE /\ ret' = << >>
              /\ stack' = ReplaceTop([Top EXCEPT !.best_value = best,
                                                !.alpha = win.alpha,
                                                !.beta = win.beta,
                                                !.pc = "loop"])
  /\ UNCHANGED <<entry, root, total, movegens, evals, result, done>>

\* a direct call of alpha_beta has returned its value to its caller
AB_Return ==
  /\ ~done
  /\ root.pc = "none"
  /\ stack = << >>
  /\ result' = ret
  /\ done' = TRUE
  /\ UNCHANGED <<entry, stack, root, ret, total, movegens, evals>>

----------------------------------------------------------------------------
(* find_best_move.                                                         *)

\* lines 149-165
FBM_Enter ==
  /\ root.pc = "start"
  /\ LET black_move == side_to_move(entry.board) = "Black"
     IN  root' = [pc |-> "loop", black_move |-> black_move,
                  moves |-> new_legal(entry.board),
                  best_value |-> root_initial_best(black_move),
                  best_move |-> << >>, mv |-> 0]
  /\ total' = 0
  /\ movegens' = movegens + 1
  /\ UNCHANGED <<entry, stack, ret, evals, result, done>>

\* lines 166-176: the next root move is made and its child searched with
\* the full window
FBM_Call ==
  /\ root.pc = "loop"
  /\ root.moves /= << >>
  /\ LET mv == Head(root.moves)
         new_board == make_move(entry.board, mv)
     IN  /\ stack' = << Frame(new_board, entry.depth, root.black_move,
                              I64_MIN, I64_MAX) >>
         /\ root' = [root EXCEPT !.pc = "call", !.mv = mv,
                                 !.moves = Tail(root.moves)]
  /\ ret' = << >>
  /\ UNCHANGED <<entry, total, movegens, evals, result, done>>

\* lines 177-180: the child's value replaces the best one if it is better
FBM_Select ==
  /\ root.pc = "call"
  /\ stack = << >>
  /\ LET value == ret[1]
     IN  IF is_better(root.black_move, value, root.best_value)
         THEN root' = [root EXCEPT !.pc = "loop", !.best_value = value,
                                   !.best_move = << root.mv >>]
         ELSE root' = [root EXCEPT !.pc = "loop"]
  /\ ret' = << >>
  /\ UNCHANGED <<entry, stack, total, movegens, evals, result, done>>

\* line 183: None is the empty sequence, Some(mv) the sequence << mv >>
FBM_Return ==
  /\ root.pc = "loop"
  /\ root.moves = << >>
  /\ root' = [root EXCEPT !.pc = "returned"]
  /\ result' = root.best_move
  /\ done' = TRUE
  /\ UNCHANGED <<entry, stack, ret, total, movegens, evals>>

Next ==
  \/ AB_Leaf
  \/ AB_Expand
  \/ AB_Call
  \/ AB_Update
  \/ AB_Return
  \/ FBM_Enter
  \/ FBM_Call
  \/ FBM_Select
  \/ FBM_Return

Spec == Init /\ [][Next]_vars

\* the program is sequential and runs on: a step that can be taken is taken
FairSpec == Spec /\ WF_vars(Next)

----------------------------------------------------------------------------
(* Reference definitions of the properties: plain minimax over the same    *)
(* tree, with the same move order and evaluator and no window at all.      *)

SetMax(S) == CHOOSE x \in S : \A y \in S : x >= y

SetMin(S) == CHOOSE x \in S : \A y \in S : x <= y

Children(board) ==
  [i \in 1..Len(new_legal(board)) |-> make_move(board, new_legal(board)[i])]

RECURSIVE Minimax(_, _, _)
Minimax(board, depth, is_max) ==
  IF depth = 0 \/ status(board) /= "Ongoing"
  THEN calc_board_value(board)
  ELSE LET kids == Children(board)
           vals == {Minimax(kids[i], depth - 1, ~is_max) : i \in DOMAIN kids}
       IN  IF is_max THEN SetMax(vals \cup {I64_MIN})
                     ELSE SetMin(vals \cup {I64_MAX})

\* the evaluated leaves of the unpruned search
RECURSIVE MinimaxLeaves(_, _)
MinimaxLeaves(board, depth) ==
  IF depth = 0 \/ status(board) /= "Ongoing"
  THEN 1
  ELSE LET kids == Children(board)
           RECURSIVE Sum(_)
           Sum(i) == IF i = 0 THEN 0
                     ELSE MinimaxLeaves(kids[i], depth - 1) + Sum(i - 1)
       IN  Sum(Len(kids))

Direct == entry.op = "alpha_beta"

Driver == entry.op = "find_best_move"

FullWindow == entry.alpha = I64_MIN /\ entry.beta = I64_MAX

\* the root driver holds the value its call of alpha_beta just returned
RootChildReturned == Driver /\ root.pc = "call" /\ stack = << >>

RootChild == make_move(entry.board, root.mv)

----------------------------------------------------------------------------
(* Claims.                                                                 *)

\* C1: alpha-beta equivalence.  A call of alpha_beta with the full window
\* (-infinity, +infinity), made directly or by the root driver for a root
\* child, returns the value of plain minimax (no cutoff) over the same tree,
\* for either value of the maximizing flag and every depth.
C1_AlphaBetaEqualsMinimax ==
  /\ (done /\ Direct /\ FullWindow)
       => result = << Minimax(entry.board, entry.depth, entry.is_max) >>
  /\ RootChildReturned
       => ret = << Minimax(RootChild, entry.depth, root.black_move) >>

\* a full-window call that pruned: it evaluated fewer leaves than minimax
C1_Witness ==
  /\ done /\ Direct /\ FullWindow
  /\ entry.depth = MaxDepth
  /\ total - entry.total < MinimaxLeaves(entry.board, entry.depth)
  /\ result = << Minimax(entry.board, entry.depth, entry.is_max) >>

\* C7: depth-0 search is static evaluation.  A call of alpha_beta with
\* depth 0, or on a position that is not Ongoing, returns evaluate(p) for
\* every flag and window, adds exactly 1 to the leaf counter and generates
\* no moves.
C7_DepthZeroIsEvaluate ==
  (done /\ Direct /\ (entry.depth = 0 \/ status(entry.board) /= "Ongoing"))
    => /\ result = << calc_board_value(entry.board) >>
       /\ total = entry.total + 1
       /\ movegens = 0

\* a finished game searched with depth left and a window that is no window
C7_Witness ==
  /\ done /\ Direct
  /\ entry.depth > 0 /\ status(entry.board) = "Checkmate"
  /\ entry.beta < entry.alpha
  /\ entry.total = StartCount /\ total = StartCount + 1
  /\ result = << 20000 >>

\* C9: window soundness.  For a call with alpha < beta, with v the minimax
\* value and r the returned value: alpha < v < beta gives r = v; r <= alpha
\* gives v <= r; r >= beta gives v >= r.
C9_WindowSound ==
  (done /\ Direct /\ entry.alpha < entry.beta)
    => LET v == Minimax(entry.board, entry.depth, entry.is_max)
           r == result[1]
       IN  /\ (entry.alpha < v /\ v < entry.beta) => r = v
           /\ (r <= entry.alpha) => v <= r
           /\ (r >= entry.beta) => v >= r

\* a cutoff returned a bound that is not the value: r >= beta and v > r
C9_Witness ==
  /\ done /\ Direct /\ entry.alpha < entry.beta
  /\ entry.alpha /= I64_MIN /\ entry.beta /= I64_MAX
  /\ result[1] >= entry.beta
  /\ Minimax(entry.board, entry.depth, entry.is_max) > result[1]

\* the values of the root children as the root driver is specified to
\* compute them: each with a full window and the root's own flag
ChildValues(board, depth) ==
  [i \in DOMAIN Children(board) |->
     Minimax(Children(board)[i], depth, side_to_move(board) = "Black")]

\* x is at least as good as y for the side to move at the root
AsGood(board, x, y) ==
  IF side_to_move(board) = "Black" THEN x >= y ELSE x <= y

\* the place of a returned move in the enumeration of the root's moves
IndexOf(board, mv) ==
  CHOOSE i \in DOMAIN new_legal(board) : new_legal(board)[i] = mv

\* the score of being checkmated, for the side to move of the position
MatedScore(board) == IF side_to_move(board) = "Black" THEN -20000 ELSE 20000

\* C2: find_best_move returns None iff the position is not Ongoing.
C2_NoneIffNotOngoing ==
  (done /\ Driver)
    => ((result = << >>) <=> (status(entry.board) /= "Ongoing"))

\* an Ongoing root all of whose children are worth the mated score of the
\* side to move: a move is returned all the same
C2_Witness ==
  /\ done /\ Driver
  /\ entry.depth >= 1
  /\ status(entry.board) = "Ongoing"
  /\ \A i \in DOMAIN Children(entry.board) :
       ChildValues(entry.board, entry.depth)[i] = MatedScore(entry.board)
  /\ result /= << >>

\* a finished game at the root: nothing is returned
C2_WitnessNone ==
  /\ done /\ Driver
  /\ status(entry.board) = "Checkmate"
  /\ result = << >>

\* C3: the root driver returns the first move, in enumeration order, whose
\* child value is extremal (greatest for Black to move, smallest for White
\* to move), each child value being the full-window search of the child with
\* the root's flag; a later move of equal value never replaces it.
C3_FirstExtremal ==
  (done /\ Driver /\ status(entry.board) = "Ongoing")
    => /\ result /= << >>
       /\ LET vals == ChildValues(entry.board, entry.depth)
              k    == IndexOf(entry.board, result[1])
          IN  /\ \A j \in DOMAIN vals : AsGood(entry.board, vals[k], vals[j])
              /\ \A j \in DOMAIN vals : j < k => vals[j] /= vals[k]

\* two root moves share the extremal value and the earlier one is returned
C3_Witness ==
  /\ done /\ Driver /\ status(entry.board) = "Ongoing"
  /\ result /= << >>
  /\ LET vals == ChildValues(entry.board, entry.depth)
         k    == IndexOf(entry.board, result[1])
     IN  /\ \E j \in DOMAIN vals : j > k /\ vals[j] = vals[k]
         /\ \E j \in DOMAIN vals : vals[j] /= vals[k]

\* the side to move at the root has a move that checkmates
MateInOne(board) ==
  /\ status(board) = "Ongoing"
  /\ \E i \in DOMAIN Children(board) : status(Children(board)[i]) = "Checkmate"

\* the score of a root child in which the opponent is checkmated
MateScore(board) == IF side_to_move(board) = "Black" THEN 20000 ELSE -20000

\* C4 as stated: with a mate in one at the root and depth >= 1, the returned
\* move leads to a checkmated position, whose evaluate is +20000 (Black
\* mated White) or -20000 (White mated Black).
C4_ReturnsMatingMove ==
  (done /\ Driver /\ entry.depth >= 1 /\ MateInOne(entry.board))
    => /\ result /= << >>
       /\ status(make_move(entry.board, result[1])) = "Checkmate"
       /\ calc_board_value(make_move(entry.board, result[1]))
            = MateScore(entry.board)

\* C4 as amended: with a mate in one at the root and depth >= 1, every
\* mating move's child value is the mate score, and the returned move is the
\* first root move whose child value is extremal, a value at least as good
\* as the mate score; the position it leads to need not be the checkmate.
C4_ReturnsMateValue ==
  (done /\ Driver /\ entry.depth >= 1 /\ MateInOne(entry.board))
    => /\ result /= << >>
       /\ LET vals == ChildValues(entry.board, entry.depth)
              kids == Children(entry.board)
              k    == IndexOf(entry.board, result[1])
          IN  /\ \A i \in DOMAIN kids :
                   status(kids[i]) = "Checkmate"
                     => /\ vals[i] = MateScore(entry.board)
                        /\ calc_board_value(kids[i]) = MateScore(entry.board)
              /\ AsGood(entry.board, vals[k], MateScore(entry.board))
              /\ \A j \in DOMAIN vals : AsGood(entry.board, vals[k], vals[j])
              /\ \A j \in DOMAIN vals : j < k => vals[j] /= vals[k]

\* a mate in one is found although an earlier move has the same value: the
\* returned move does not checkmate
C4_Witness ==
  /\ done /\ Driver /\ entry.depth >= 1 /\ MateInOne(entry.board)
  /\ result /= << >>
  /\ status(make_move(entry.board, result[1])) = "Ongoing"
  /\ ChildValues(entry.board, entry.depth)[IndexOf(entry.board, result[1])]
       = MateScore(entry.board)

\* the positions the search currently holds
BoardsInPlay == {entry.board} \cup {stack[i].board : i \in DOMAIN stack}

\* C5: a Checkmate position evaluates to 20000 with White to move and to
\* -20000 with Black to move, a Stalemate position to 0, whatever the
\* placement of the pieces; checked for every position the search holds and
\* for the value a call on such a position returns.
C5_FinishedGameScores ==
  /\ \A b \in BoardsInPlay :
       /\ status(b) = "Checkmate"
            => calc_board_value(b)
                 = (IF side_to_move(b) = "White" THEN 20000 ELSE -20000)
       /\ status(b) = "Stalemate" => calc_board_value(b) = 0
  /\ (done /\ Direct /\ status(entry.board) = "Checkmate")
       => result = << IF side_to_move(entry.board) = "White" THEN 20000
                      ELSE -20000 >>
  /\ (done /\ Direct /\ status(entry.board) = "Stalemate")
       => result = << 0 >>

\* a checkmate with Black to move and material on the board was searched:
\* -20000, not the worth of the placement
C5_Witness ==
  /\ done /\ Direct
  /\ status(entry.board) = "Checkmate"
  /\ side_to_move(entry.board) = "Black"
  /\ Cardinality(DOMAIN Placement(entry.board)) > 2
  /\ calc_pieces_value(entry.board) /= -20000
  /\ result = << -20000 >>

\* a stalemate was searched: 0 although the placement alone is worth less
C5_WitnessStalemate ==
  /\ done /\ Direct
  /\ status(entry.board) = "Stalemate"
  /\ result = << 0 >>
  /\ calc_pieces_value(entry.board) < 0

\* the index of a piece kind in piece_values::PIECES
KindIndex(kind) == CHOOSE pc_idx \in 0..5 : PIECES[pc_idx] = kind

\* the contribution of the piece on an occupied square, as specified
Contribution(board, sq) ==
  LET p == Placement(board)[sq]
      s == IF p.col = "White" THEN sq ELSE 63 - sq
  IN  -(PIECE_VALS[KindIndex(p.pc)] + PIECE_SQUARES[KindIndex(p.pc)][s])

RECURSIVE SumContributions(_, _)
SumContributions(board, sq) ==
  IF sq = 64 THEN 0
  ELSE (IF sq \in DOMAIN Placement(board) THEN Contribution(board, sq) ELSE 0)
         + SumContributions(board, sq + 1)

\* C6: the evaluation of an Ongoing position is the sum, over every piece
\* of either colour, of -(material value of its kind + positional bonus at
\* s), s the square for a White piece and 63 - square for a Black piece;
\* the side to move does not change it.  Checked for every position a call
\* of alpha_beta starts on and for the value a depth-0 call returns.
C6_OngoingIsPieceSum ==
  /\ (stack /= << >> /\ Top.pc = "start" /\ status(Top.board) = "Ongoing")
       => /\ calc_board_value(Top.board) = SumContributions(Top.board, 0)
          /\ calc_board_value([Top.board EXCEPT !.stm = Other(Top.board.stm)])
               = calc_board_value(Top.board)
  /\ (done /\ Direct /\ entry.depth = 0 /\ status(entry.board) = "Ongoing")
       => result = << SumContributions(entry.board, 0) >>

\* an Ongoing leaf with pieces of both colours off the mirror axis has been
\* evaluated and returned
C6_Witness ==
  /\ done /\ Direct
  /\ entry.depth = 0
  /\ status(entry.board) = "Ongoing"
  /\ \E sq \in DOMAIN Placement(entry.board) :
       /\ Placement(entry.board)[sq].col = "Black"
       /\ PIECE_SQUARES[KindIndex(Placement(entry.board)[sq].pc)][sq]
            /= PIECE_SQUARES[KindIndex(Placement(entry.board)[sq].pc)][63 - sq]
  /\ \E sq \in DOMAIN Placement(entry.board) :
       Placement(entry.board)[sq].col = "White"
  /\ result = << SumContributions(entry.board, 0) >>

\* the leaves of the unpruned searches of all root children
RECURSIVE RootLeaves(_, _, _)
RootLeaves(board, depth, i) ==
  IF i = 0 THEN 0
  ELSE MinimaxLeaves(Children(board)[i], depth) + RootLeaves(board, depth, i - 1)

\* the activation on top of the stack is about to evaluate its position
AtLeaf ==
  /\ stack /= << >>
  /\ Top.pc = "start"
  /\ (Top.depth = 0 \/ status(Top.board) /= "Ongoing")

\* C8: in one find_best_move the leaf counter starts at 0, grows by exactly
\* 1 in each step that evaluates a terminal node and stays as it is in every
\* other step; at the end it is the number of evaluations performed and at
\* most the number of leaves of the unpruned search.
C8_LeafCounter ==
  [][Driver =>
       /\ (root.pc = "start") => total' = 0
       /\ AtLeaf => (total' = total + 1 /\ evals' = evals + 1)
       /\ ~AtLeaf => (total' = total /\ evals' = evals)
       /\ done' =>
            /\ total' = evals'
            /\ total' <= RootLeaves(entry.board, entry.depth,
                                    Len(Children(entry.board)))]_vars

\* a finished find_best_move that pruned: fewer evaluations than leaves
C8_Witness ==
  /\ done /\ Driver
  /\ total = evals
  /\ total > 1
  /\ total < RootLeaves(entry.board, entry.depth, Len(Children(entry.board)))

\* the flag of the outermost activation of alpha_beta
TopFlag == IF Driver THEN root.black_move ELSE entry.is_max

\* the activations' depths count down from the depth of the call, never
\* below 0 (so that the i8 subtraction of line 86 stays in range), and
\* their flags alternate
StackShape ==
  /\ Len(stack) <= entry.depth + 1
  /\ \A i \in DOMAIN stack :
       /\ stack[i].depth = entry.depth - (i - 1)
       /\ 0 <= stack[i].depth /\ stack[i].depth <= entry.depth
       /\ stack[i].is_max = (IF i % 2 = 1 THEN TopFlag ELSE ~TopFlag)

\* C10: every search terminates; in every activation of alpha_beta the
\* depth d satisfies 0 <= d <= plyDepth, the flag alternates ply by ply
\* below the root child, and a leaf is at most plyDepth + 1 plies below the
\* root (the i-th activation is i plies below the root of find_best_move).
C10_TerminatesWithinDepth == (<>done) /\ [](StackShape)

\* a leaf is evaluated plyDepth + 1 plies below the root
C10_Witness ==
  /\ Driver
  /\ entry.depth = MaxDepth
  /\ Len(stack) = entry.depth + 1
  /\ AtLeaf
  /\ Top.depth = 0

====
